---- MODULE Spec2Model ----
(***************************************************************************)
(* Request dispatch of Static Web Server: RequestHandler::handle            *)
(* (src/handler.rs).  The dispatcher runs a fixed chain of pre-filter       *)
(* stages, the static resolver, and a fixed chain of post-transform stages. *)
(* The model is of the build with every cargo feature enabled (basic-auth,  *)
(* fallback-page, compression, experimental metrics on unix).               *)
(*                                                                         *)
(* The stages themselves (health, cors, basic_auth, ... , static_files,     *)
(* error_page) live in other modules of the crate; their contracts are      *)
(* modelled as operators over the configuration and the request.            *)
(***************************************************************************)
EXTENDS Naturals, Sequences, FiniteSets

VARIABLES
    opts,        \* Arc<RequestHandlerOpts>: shared, read-only configuration
    active,      \* the request tasks that exist
    pc,          \* pc[t]: position of task t inside handle
    inbound,     \* inbound[t]: the request as the caller handed it over
    req,         \* req[t]: the &mut Request the stages see (rewrites mutate it)
    round,       \* round[t]: 0 none yet, 1 first handling, 2 handled again
    base_path,   \* base_path[t]: local `base_path` of handle
    resp,        \* resp[t]: local `resp`, the in-flight response
    file_path,   \* file_path[t]: local `file_path: Option<PathBuf>`
    result,      \* result[t]: what handle returned to the caller
    trace,       \* trace[t]: the stages handle has invoked, in order
    faults,      \* faults[t][s]: how post-transform stage s answers this request
    prev,        \* prev[t]: trace and result of the previous handling
    remote_addr, \* remote_addr[t]: parameter `remote_addr: Option<SocketAddr>`
    remote_addr_str, \* remote_addr_str[t]: local `remote_addr_str`
    log,         \* log[t]: the records handle wrote with tracing::info!
    args         \* args[t]: what handle handed to the stages of trace[t]

vars == <<opts, active, pc, inbound, req, round, base_path, resp, file_path,
          result, trace, faults, prev, remote_addr, remote_addr_str, log, args>>

-----------------------------------------------------------------------------
(* Bounds *)

\* Largest number of options a configuration may differ in from
\* RequestHandlerOpts::default().
MaxToggles == 2

\* Largest number of comma-separated entries of an X-Forwarded-For header.
MaxEntries == 2

Tasks == {"t1", "t2"}

-----------------------------------------------------------------------------
(* Values *)

Methods == {"GET", "OPTIONS", "DELETE"}

\* /a.html exists under both roots, /b.html only under the virtual host's.
Paths == {"/health", "/metrics", "/a.html", "/b.html", "/old", "/rw", "/rwr"}

Credentials == {"none", "good"}

Hosts == {"example.org", "vhost.example.org"}

\* The texts an entry of an X-Forwarded-For header may hold; the last one
\* has a byte that is not visible ASCII.
EntryTexts == {"203.0.113.7", " 203.0.113.7 ", "2001:DB8::1", "unknown", "",
               "caf<E9>"}

\* Option<&HeaderValue> of X-Forwarded-For: the entries between the commas.
NoHeader == [present |-> FALSE, entries |-> <<>>]
Header(es) == [present |-> TRUE, entries |-> es]

ForwardedFor ==
    {NoHeader} \cup
    {Header(es) : es \in UNION {[1..n -> EntryTexts] : n \in 1..MaxEntries}}

\* Option<SocketAddr>
RemoteAddrs == {"none", "192.0.2.1:4711"}

\* Requests without an X-Forwarded-For header.
Requests == [method : Methods, path : Paths, authorization : Credentials,
             host : Hosts, x_forwarded_for : {NoHeader}]

\* Requests of one client, with and without an X-Forwarded-For header.
ForwardedRequests ==
    [method : {"GET", "DELETE"}, path : {"/health", "/a.html"},
     authorization : {"none"}, host : {"example.org"},
     x_forwarded_for : ForwardedFor]

Headers == {"access-control-allow-origin", "vary", "content-encoding",
            "cache-control", "x-content-type-options"}

NoHeaders == [h \in Headers |-> "unset"]

Response(status, origin, page) ==
    [status |-> status, origin |-> origin, page |-> page, headers |-> NoHeaders]

NoResponse == Response(0, "none", "none")

\* Option<PathBuf>
NoPath == [some |-> FALSE, base |-> "", path |-> ""]
SomePath(base, path) == [some |-> TRUE, base |-> base, path |-> path]

\* Option<Result<Response<Body>, Error>> and Result<Response<Body>, Error>
NoneV == [kind |-> "none", resp |-> NoResponse, error |-> "none"]
Ok(r) == [kind |-> "ok", resp |-> r, error |-> "none"]
Err(e) == [kind |-> "err", resp |-> NoResponse, error |-> e]

PreStages == <<"health", "log", "method", "metrics", "cors", "basic_auth",
               "maintenance_mode", "redirects", "rewrites", "virtual_hosts">>

PostStages == <<"fallback_page", "cors_post", "compression_static",
                "compression", "control_headers", "security_headers",
                "custom_headers">>

Range(s) == {s[i] : i \in 1..Len(s)}

-----------------------------------------------------------------------------
(* Configuration *)

DefaultOpts ==
    [root_dir |-> "./public",
     compression |-> TRUE,
     compression_static |-> FALSE,
     cors |-> FALSE,
     security_headers |-> FALSE,
     cache_control_headers |-> TRUE,
     page404 |-> "./404.html",
     page50x |-> "./50x.html",
     page_fallback |-> FALSE,
     basic_auth |-> FALSE,
     log_remote_address |-> FALSE,
     health |-> FALSE,
     experimental_metrics |-> FALSE,
     maintenance_mode |-> FALSE,
     maintenance_mode_status |-> 503,
     advanced_opts |-> FALSE]

Statuses == {503, 500}

AllOpts ==
    [root_dir : {"./public"},
     compression : BOOLEAN,
     compression_static : BOOLEAN,
     cors : BOOLEAN,
     security_headers : BOOLEAN,
     cache_control_headers : BOOLEAN,
     page404 : {"./404.html"},
     page50x : {"./50x.html"},
     page_fallback : BOOLEAN,
     basic_auth : BOOLEAN,
     log_remote_address : BOOLEAN,
     health : BOOLEAN,
     experimental_metrics : BOOLEAN,
     maintenance_mode : BOOLEAN,
     maintenance_mode_status : Statuses,
     advanced_opts : BOOLEAN]

Toggles(o) == Cardinality({f \in DOMAIN DefaultOpts : o[f] # DefaultOpts[f]})

Configs == {o \in AllOpts : Toggles(o) <= MaxToggles}

\* The one virtual host of the advanced options and its root.
VirtualHostRoot == "./vhost"

-----------------------------------------------------------------------------
(* Collaborators: the stages' contracts *)

\* http_ext::MethodExt::is_allowed
IsAllowed(m) == m \in {"GET", "HEAD", "OPTIONS"}

\* error_page::error_response: client-error statuses render the 404 page,
\* server-error statuses the 50x page; it never fails the request.
ErrorResponse(uri, method, status, page404, page50x) ==
    Ok(Response(status, "error_page",
                IF status \in 400..499 THEN page404
                ELSE IF status \in 500..599 THEN page50x
                ELSE "none"))

\* health::pre_process: answers GET/HEAD probes of the health endpoint.
HealthPre(o, r) ==
    IF o.health /\ r.path = "/health" /\ r.method \in {"GET", "HEAD"}
    THEN Ok(Response(200, "health", "none"))
    ELSE NoneV

\* metrics::pre_process
MetricsPre(o, r) ==
    IF o.experimental_metrics /\ r.path = "/metrics" /\ r.method \in {"GET", "HEAD"}
    THEN Ok(Response(200, "metrics", "none"))
    ELSE NoneV

\* cors::pre_process: answers a preflight when a CORS policy is configured.
CorsPre(o, r) ==
    IF o.cors /\ r.method = "OPTIONS"
    THEN Ok(Response(204, "cors", "none"))
    ELSE NoneV

\* basic_auth::pre_process: 401 on a missing or invalid credential.
BasicAuthPre(o, r) ==
    IF o.basic_auth /\ r.authorization # "good"
    THEN Ok(Response(401, "basic_auth", "none"))
    ELSE NoneV

\* maintenance_mode::pre_process: answers every request it is given.
MaintenancePre(o, r) ==
    IF o.maintenance_mode
    THEN Ok(Response(o.maintenance_mode_status, "maintenance_mode", "none"))
    ELSE NoneV

\* redirects::pre_process: the advanced options redirect /old.
RedirectsPre(o, r) ==
    IF o.advanced_opts /\ r.path = "/old"
    THEN Ok(Response(301, "redirects", "none"))
    ELSE NoneV

\* rewrites::pre_process: /rwr is rewritten with a redirect (a response),
\* /rw is rewritten in place to /b.html and processing continues.
RewritesPre(o, r) ==
    IF o.advanced_opts /\ r.path = "/rwr"
    THEN Ok(Response(301, "rewrites", "none"))
    ELSE NoneV

RewrittenRequest(o, r) ==
    IF o.advanced_opts /\ r.path = "/rw"
    THEN [r EXCEPT !.path = "/b.html"]
    ELSE r

\* virtual_hosts::get_real_root
GetRealRoot(r) ==
    IF r.host = "vhost.example.org" THEN SomePath(VirtualHostRoot, "") ELSE NoPath

\* The files below each root directory.
Files(base) ==
    IF base = VirtualHostRoot THEN {"/a.html", "/b.html"} ELSE {"/a.html"}

\* static_files::handle: Ok(response, file path) or Err(status).
StaticHandle(base, r) ==
    IF r.path \in Files(base)
    THEN [kind |-> "ok", resp |-> Response(200, "static_files", "none"),
          file_path |-> SomePath(base, r.path), status |-> 200]
    ELSE [kind |-> "err", resp |-> NoResponse, file_path |-> NoPath,
          status |-> 404]

SetHeaders(r, names, value) ==
    [r EXCEPT !.headers = [h \in Headers |->
                             IF h \in names THEN value ELSE r.headers[h]]]

\* fallback_page::post_process: a 404 of a GET becomes the fallback page.
FallbackPost(o, r, rs) ==
    IF o.page_fallback /\ r.method = "GET" /\ rs.status = 404
    THEN Response(200, "fallback_page", "none")
    ELSE rs

\* The header names each post-transform stage sets when its feature is on.
Writes(o, stage, fp) ==
    CASE stage = "cors_post" ->
            IF o.cors THEN {"access-control-allow-origin"} ELSE {}
      [] stage = "compression_static" ->
            IF o.compression_static THEN {"vary"} ELSE {}
      [] stage = "compression" ->
            IF o.compression THEN {"vary", "content-encoding"} ELSE {}
      [] stage = "control_headers" ->
            IF o.cache_control_headers THEN {"cache-control"} ELSE {}
      [] stage = "security_headers" ->
            IF o.security_headers THEN {"x-content-type-options"} ELSE {}
      [] stage = "custom_headers" ->
            IF o.advanced_opts /\ fp.some
            THEN {"cache-control", "x-content-type-options"} ELSE {}
      [] OTHER -> {}

\* What stage `stage` returns for response rs when it does not fail.
PostProcess(o, r, stage, rs, fp) ==
    IF stage = "fallback_page"
    THEN FallbackPost(o, r, rs)
    ELSE SetHeaders(rs, Writes(o, stage, fp), stage)

\* A post-transform stage can fail to build its response only when its
\* feature is configured.
CanFail(o, stage) ==
    CASE stage = "fallback_page" -> o.page_fallback
      [] stage = "cors_post" -> o.cors
      [] stage = "compression_static" -> o.compression_static
      [] stage = "compression" -> o.compression
      [] stage = "control_headers" -> o.cache_control_headers
      [] stage = "security_headers" -> o.security_headers
      [] stage = "custom_headers" -> o.advanced_opts
      [] OTHER -> FALSE

PostAnswers(o, stage) == IF CanFail(o, stage) THEN {"ok", "fail"} ELSE {"ok"}

NoFaults == [s \in Range(PostStages) |-> "unasked"]

-----------------------------------------------------------------------------
(* RequestHandler::handle *)

Pending == [kind |-> "pending", resp |-> NoResponse, error |-> "none"]

\* A String is modelled as the sequence of the pieces pushed onto it;
\* pushing the empty string adds nothing.
PushStr(str, piece) == IF piece = "" THEN str ELSE Append(str, piece)

\* HeaderValue::to_str: fails unless every byte is visible ASCII.
ToStr(h) ==
    IF h.present /\ \A i \in 1..Len(h.entries) : h.entries[i] # "caf<E9>"
    THEN [some |-> TRUE, entries |-> h.entries]
    ELSE [some |-> FALSE, entries |-> <<>>]

\* str::trim
Trim(text) == IF text = " 203.0.113.7 " THEN "203.0.113.7" ELSE text

\* str::parse::<IpAddr> followed by IpAddr::to_string: the address in
\* canonical form, "" when the text is no IP address.
ParseIpAddr(text) ==
    CASE text = "203.0.113.7" -> "203.0.113.7"
      [] text = "2001:DB8::1" -> "2001:db8::1"
      [] OTHER -> ""

\* SocketAddr::to_string of the remote address, "" when there is none.
AddrToString(addr) == IF addr = "none" THEN "" ELSE addr

\* Variant of RemoteAddrStr: the first entry is parsed as it stands, spaces
\* around it included.
RemoteAddrStr_Untrimmed(o, r, addr) ==
    IF ~o.log_remote_address THEN <<>>
    ELSE LET base == PushStr(<<" remote_addr=">>, AddrToString(addr))
             value == ToStr(r.x_forwarded_for)
             ip == IF value.some THEN ParseIpAddr(value.entries[1]) ELSE ""
         IN  IF ip # ""
             THEN PushStr(PushStr(base, " real_remote_ip="), ip)
             ELSE base

\* The remote-address annotation built at the start of handle.
RemoteAddrStr(o, r, addr) ==
    IF ~o.log_remote_address THEN <<>>
    ELSE LET base == PushStr(<<" remote_addr=">>, AddrToString(addr))
             value == ToStr(r.x_forwarded_for)
             \* `s.split(',').next()` then `s.trim().parse::<IpAddr>().ok()`
             ip == IF value.some THEN ParseIpAddr(Trim(value.entries[1])) ELSE ""
         IN  IF ip # ""
             THEN PushStr(PushStr(base, " real_remote_ip="), ip)
             ELSE base

\* An argument a stage is or is not given.
NotGiven == [given |-> FALSE]
Given(x) == [given |-> TRUE, value |-> x]

\* What handle hands to a stage it calls: the request (its URI), for health
\* and the log record the annotation, for the static resolver the base path,
\* for custom headers the file path.
StageArgs(t, stage) ==
    [uri |-> req[t].path,
     base_path |-> IF stage = "static_files"
                   THEN Given(base_path[t]) ELSE NotGiven,
     annotation |-> IF stage \in {"health", "log"}
                    THEN Given(remote_addr_str[t]) ELSE NotGiven,
     file_path |-> IF stage = "custom_headers"
                   THEN Given(file_path[t]) ELSE NotGiven]

\* The file path a post-transform stage works with.
PathOf(a) == IF a.file_path.given THEN a.file_path.value ELSE NoPath

Set(f, t, v) == [f EXCEPT ![t] = v]

\* Nothing handed over yet.
NoArgs == [uris |-> <<>>, annotations |-> <<>>, bases |-> <<>>, paths |-> <<>>]

\* The record of arguments a, extended by the call of `stage`: the URI every
\* stage sees, and the annotation and the file path where they are given.
HandOver(a, t, stage) ==
    LET g == StageArgs(t, stage) IN
    [uris |-> Append(a.uris, g.uri),
     annotations |-> IF g.annotation.given
                     THEN Append(a.annotations,
                                 [stage |-> stage, value |-> g.annotation.value])
                     ELSE a.annotations,
     bases |-> IF g.base_path.given
               THEN Append(a.bases, [stage |-> stage, value |-> g.base_path.value])
               ELSE a.bases,
     paths |-> IF g.file_path.given
               THEN Append(a.paths, [stage |-> stage, value |-> g.file_path.value])
               ELSE a.paths]

RECURSIVE HandOverAll(_, _, _)
HandOverAll(a, t, stages) ==
    IF stages = <<>> THEN a
    ELSE HandOverAll(HandOver(a, t, Head(stages)), t, Tail(stages))

Invoke(t, stages) ==
    /\ trace' = Set(trace, t, trace[t] \o stages)
    /\ args' = Set(args, t, HandOverAll(args[t], t, stages))

\* `return result;`
Return(t, r) ==
    /\ pc' = Set(pc, t, "done")
    /\ result' = Set(result, t, r)

Goto(t, label) ==
    /\ pc' = Set(pc, t, label)
    /\ UNCHANGED result

\* `if let Some(result) = stage::pre_process(..) { return result; }`
PreFilter(t, here, ans, next) ==
    /\ pc[t] = here
    /\ Invoke(t, <<here>>)
    /\ IF ans.kind # "none" THEN Return(t, ans) ELSE Goto(t, next)
    /\ UNCHANGED <<opts, active, remote_addr, remote_addr_str, log, inbound, req, round, base_path, resp,
                   file_path, faults, prev>>

\* Variant of PostTransform: a failure of the stage is swallowed and the
\* response it was given travels on.
PostTransform_Swallow(t, here, next) ==
    /\ pc[t] = here
    /\ Invoke(t, <<here>>)
    /\ \E a \in PostAnswers(opts, here) :
          /\ faults[t][here] \in {"unasked", a}
          /\ faults' = Set(faults, t, [faults[t] EXCEPT ![here] = a])
          /\ Goto(t, next)
          /\ resp' = Set(resp, t,
                 IF a = "fail" THEN resp[t]
                 ELSE PostProcess(opts, req[t], here, resp[t],
                                PathOf(StageArgs(t, here))))
    /\ UNCHANGED <<opts, active, remote_addr, remote_addr_str, log, inbound, req, round, base_path, file_path, prev>>

\* Variant of PostTransform: a stage that failed is called a second time
\* before the failure is returned.
PostTransform_Retry(t, here, next) ==
    /\ pc[t] = here
    /\ Invoke(t, <<here>>)
    /\ \E a \in PostAnswers(opts, here) :
          /\ faults[t][here] \in {"unasked", a}
          /\ faults' = Set(faults, t, [faults[t] EXCEPT ![here] = a])
          /\ IF a = "fail"
             THEN /\ IF here \in Range(trace[t])
                     THEN Return(t, Err(here))
                     ELSE Goto(t, here)
                  /\ resp' = Set(resp, t, NoResponse)
             ELSE /\ Goto(t, next)
                  /\ resp' = Set(resp, t,
                         PostProcess(opts, req[t], here, resp[t],
                                PathOf(StageArgs(t, here))))
    /\ UNCHANGED <<opts, active, remote_addr, remote_addr_str, log, inbound, req, round, base_path, file_path, prev>>

\* `let resp = stage::post_process(&self.opts, req, resp, ..)?;`
PostTransform(t, here, next) ==
    /\ pc[t] = here
    /\ Invoke(t, <<here>>)
    /\ \E a \in PostAnswers(opts, here) :
          /\ faults[t][here] \in {"unasked", a}
          /\ faults' = Set(faults, t, [faults[t] EXCEPT ![here] = a])
          /\ IF a = "fail"
             THEN /\ Return(t, Err(here))
                  /\ resp' = Set(resp, t, NoResponse)
             ELSE /\ Goto(t, next)
                  /\ resp' = Set(resp, t,
                         PostProcess(opts, req[t], here, resp[t],
                                PathOf(StageArgs(t, here))))
    /\ UNCHANGED <<opts, active, remote_addr, remote_addr_str, log, inbound, req, round, base_path, file_path, prev>>

\* Variant of PreFilter: the stage's response is not returned but handed to
\* the post-transform chain.
PreFilterIntoChain(t, here, ans) ==
    /\ pc[t] = here
    /\ Invoke(t, <<here>>)
    /\ Goto(t, "fallback_page")
    /\ resp' = Set(resp, t, ans.resp)
    /\ UNCHANGED <<opts, active, remote_addr, remote_addr_str, log, inbound, req, round, base_path,
                   file_path, faults, prev>>

\* Entry of handle up to the async block: the locals are set up.
Enter(t, r, addr, rnd) ==
    /\ remote_addr' = Set(remote_addr, t, addr)
    /\ remote_addr_str' = Set(remote_addr_str, t, RemoteAddrStr(opts, r, addr))
    /\ log' = Set(log, t, <<>>)
    /\ args' = Set(args, t, NoArgs)
    /\ inbound' = Set(inbound, t, r)
    /\ req' = Set(req, t, r)
    /\ round' = Set(round, t, rnd)
    /\ base_path' = Set(base_path, t, opts.root_dir)
    /\ resp' = Set(resp, t, NoResponse)
    /\ file_path' = Set(file_path, t, NoPath)
    /\ result' = Set(result, t, Pending)
    /\ trace' = Set(trace, t, <<>>)
    /\ pc' = Set(pc, t, "health")

\* The server hands a request to handle.
Receive(t) ==
    /\ pc[t] = "idle"
    /\ \E r \in Requests : Enter(t, r, "none", 1)
    /\ UNCHANGED <<opts, active, faults, prev>>

\* The server hands handle a request that may carry an X-Forwarded-For
\* header, with or without the peer's socket address.
ReceiveForwarded(t) ==
    /\ pc[t] = "idle"
    /\ \E r \in ForwardedRequests, addr \in RemoteAddrs : Enter(t, r, addr, 1)
    /\ UNCHANGED <<opts, active, faults, prev>>

\* Requests that a rewrite or a virtual host treats differently.
ConcRequests ==
    [method : {"GET"}, path : {"/rw", "/b.html"}, authorization : {"none"},
     host : Hosts, x_forwarded_for : {NoHeader}]

\* The server hands one of several connections' requests to handle.
ReceiveConc(t) ==
    /\ pc[t] = "idle"
    /\ \E r \in ConcRequests : Enter(t, r, "none", 1)
    /\ UNCHANGED <<opts, active, faults, prev>>

\* The same request is handed to handle once more; the stages answer it as
\* they did the first time.
HandleAgain(t) ==
    /\ pc[t] = "done"
    /\ round[t] = 1
    /\ prev' = Set(prev, t, [trace |-> trace[t], result |-> result[t]])
    /\ Enter(t, inbound[t], remote_addr[t], 2)
    /\ UNCHANGED <<opts, active, faults>>

Health(t) == PreFilter(t, "health", HealthPre(opts, req[t]), "log")

\* Variant of Log: no record is written.
Log_Silent(t) == PreFilter(t, "log", NoneV, "method")

\* tracing::info!("incoming request: method={} uri={}{}", ..)
Log(t) ==
    /\ pc[t] = "log"
    /\ Invoke(t, <<"log">>)
    /\ log' = Set(log, t, Append(log[t],
                   [method |-> req[t].method, uri |-> req[t].path,
                    annotation |-> StageArgs(t, "log").annotation.value]))
    /\ Goto(t, "method")
    /\ UNCHANGED <<opts, active, remote_addr, remote_addr_str, inbound, req,
                   round, base_path, resp, file_path, faults, prev>>

\* Variant of MethodCheck: the allow-list is not consulted.
MethodCheck_Allows(t) == PreFilter(t, "method", NoneV, "metrics")

\* `if !req.method().is_allowed() { return error_page::error_response(..) }`
MethodCheck(t) ==
    /\ pc[t] = "method"
    /\ IF ~IsAllowed(req[t].method)
       THEN /\ Invoke(t, <<"method", "error_page">>)
            /\ Return(t, ErrorResponse(req[t].path, req[t].method, 405,
                                       opts.page404, opts.page50x))
       ELSE /\ Invoke(t, <<"method">>)
            /\ Goto(t, "metrics")
    /\ UNCHANGED <<opts, active, remote_addr, remote_addr_str, log, inbound, req, round, base_path, resp,
                   file_path, faults, prev>>

Metrics(t) == PreFilter(t, "metrics", MetricsPre(opts, req[t]), "cors")

\* Variant of Cors: on continue the basic-auth check is passed over.
Cors_SkipsAuth(t) == PreFilter(t, "cors", CorsPre(opts, req[t]), "maintenance_mode")

Cors(t) == PreFilter(t, "cors", CorsPre(opts, req[t]), "basic_auth")

\* Variant of BasicAuth: on continue the maintenance check is passed over.
BasicAuth_SkipsMaintenance(t) ==
    PreFilter(t, "basic_auth", BasicAuthPre(opts, req[t]), "redirects")

\* Variant of BasicAuth: the stage runs but its answer is dropped.
BasicAuth_Ignored(t) == PreFilter(t, "basic_auth", NoneV, "maintenance_mode")

\* Variant of BasicAuth: the maintenance response, where there is one, is
\* returned before the credentials are looked at.
BasicAuth_MaintenanceFirst(t) ==
    PreFilter(t, "basic_auth",
              IF MaintenancePre(opts, req[t]).kind # "none"
              THEN MaintenancePre(opts, req[t])
              ELSE BasicAuthPre(opts, req[t]),
              "maintenance_mode")

BasicAuth(t) ==
    PreFilter(t, "basic_auth", BasicAuthPre(opts, req[t]), "maintenance_mode")

\* Variant of MaintenanceMode: the maintenance response goes through the
\* post-transform chain before it is returned.
MaintenanceMode_IntoChain(t) ==
    IF opts.maintenance_mode
    THEN PreFilterIntoChain(t, "maintenance_mode", MaintenancePre(opts, req[t]))
    ELSE PreFilter(t, "maintenance_mode", NoneV, "redirects")

MaintenanceMode(t) ==
    PreFilter(t, "maintenance_mode", MaintenancePre(opts, req[t]), "redirects")

\* Variant of Redirects: a redirect goes through the post-transform chain
\* before it is returned.
Redirects_IntoChain(t) ==
    IF RedirectsPre(opts, req[t]).kind # "none"
    THEN PreFilterIntoChain(t, "redirects", RedirectsPre(opts, req[t]))
    ELSE PreFilter(t, "redirects", NoneV, "rewrites")

Redirects(t) == PreFilter(t, "redirects", RedirectsPre(opts, req[t]), "rewrites")

\* Variant of Rewrites: the stage rewrites a copy, the request itself keeps
\* its URI.
Rewrites_OnCopy(t) == PreFilter(t, "rewrites", RewritesPre(opts, req[t]), "virtual_hosts")

\* rewrites::pre_process takes the request by &mut: on continue the URI may
\* have been rewritten in place.
Rewrites(t) ==
    /\ pc[t] = "rewrites"
    /\ Invoke(t, <<"rewrites">>)
    /\ LET ans == RewritesPre(opts, req[t]) IN
          IF ans.kind # "none"
          THEN /\ Return(t, ans)
               /\ UNCHANGED req
          ELSE /\ Goto(t, "virtual_hosts")
               /\ req' = Set(req, t, RewrittenRequest(opts, req[t]))
    /\ UNCHANGED <<opts, active, remote_addr, remote_addr_str, log, inbound, round, base_path, resp, file_path,
                   faults, prev>>

\* Variant of VirtualHosts: the root of a matching host is not taken over.
VirtualHosts_KeepsRoot(t) == PreFilter(t, "virtual_hosts", NoneV, "static_files")

\* Variant of VirtualHosts: a matching host's root is taken or not, as the
\* lookup happens to go.
VirtualHosts_AnyRoot(t) ==
    /\ pc[t] = "virtual_hosts"
    /\ Invoke(t, <<"virtual_hosts">>)
    /\ LET root == GetRealRoot(req[t]) IN
          \E b \in {base_path[t]} \cup
                   (IF opts.advanced_opts /\ root.some THEN {root.base} ELSE {}) :
              base_path' = Set(base_path, t, b)
    /\ Goto(t, "static_files")
    /\ UNCHANGED <<opts, active, remote_addr, remote_addr_str, log, inbound, req, round, resp, file_path,
                   faults, prev>>

\* Variant of VirtualHosts: the base path is one place shared by all
\* requests in flight.
VirtualHosts_Shared(t) ==
    /\ pc[t] = "virtual_hosts"
    /\ Invoke(t, <<"virtual_hosts">>)
    /\ LET root == GetRealRoot(req[t]) IN
          base_path' = [u \in DOMAIN base_path |->
                           IF opts.advanced_opts /\ root.some
                           THEN root.base ELSE base_path[u]]
    /\ Goto(t, "static_files")
    /\ UNCHANGED <<opts, active, remote_addr, remote_addr_str, log, inbound, req, round, resp, file_path,
                   faults, prev>>

\* `if let Some(advanced) = &self.opts.advanced_opts { if let Some(root) =
\*  virtual_hosts::get_real_root(..) { base_path = root; } }`
VirtualHosts(t) ==
    /\ pc[t] = "virtual_hosts"
    /\ Invoke(t, <<"virtual_hosts">>)
    /\ LET root == GetRealRoot(req[t]) IN
          base_path' = Set(base_path, t,
                           IF opts.advanced_opts /\ root.some
                           THEN root.base ELSE base_path[t])
    /\ Goto(t, "static_files")
    /\ UNCHANGED <<opts, active, remote_addr, remote_addr_str, log, inbound, req, round, resp, file_path,
                   faults, prev>>

\* `static_files::handle(&HandleOpts {..})` is called; handle suspends on it.
StaticFiles(t) ==
    /\ pc[t] = "static_files"
    /\ Invoke(t, <<"static_files">>)
    /\ Goto(t, "static_await")
    /\ UNCHANGED <<opts, active, remote_addr, remote_addr_str, log, inbound, req, round, base_path, resp,
                   file_path, faults, prev>>

\* The future handle returned is dropped while it is suspended on
\* `static_files::handle(..).await`: the request is abandoned, its locals go.
Cancel(t) ==
    /\ pc[t] = "static_await"
    /\ pc' = Set(pc, t, "cancelled")
    /\ UNCHANGED <<opts, active, remote_addr, remote_addr_str, log, inbound,
                   req, round, base_path, resp, file_path, result, trace,
                   args, faults, prev>>

\* Variant of StaticResolved: after a failed resolution the path that was
\* looked up is kept as the file path.
StaticResolved_KeepsPath(t) ==
    /\ pc[t] = "static_await"
    /\ LET res == StaticHandle(base_path[t], req[t]) IN
          IF res.kind = "ok"
          THEN /\ resp' = Set(resp, t, res.resp)
               /\ file_path' = Set(file_path, t, res.file_path)
               /\ Goto(t, "fallback_page")
               /\ UNCHANGED <<trace, args>>
          ELSE /\ Invoke(t, <<"error_page">>)
               /\ file_path' = Set(file_path, t, SomePath(base_path[t], req[t].path))
               /\ Goto(t, "fallback_page")
               /\ resp' = Set(resp, t,
                      ErrorResponse(req[t].path, req[t].method, res.status,
                                    opts.page404, opts.page50x).resp)
    /\ UNCHANGED <<opts, active, remote_addr, remote_addr_str, log, inbound,
                   req, round, base_path, faults, prev>>

\* Variant of StaticResolved: a failure status of the resolver is returned
\* as a fatal error instead of being rendered.
StaticResolved_Fatal(t) ==
    /\ pc[t] = "static_await"
    /\ LET res == StaticHandle(base_path[t], req[t]) IN
          IF res.kind = "ok"
          THEN /\ resp' = Set(resp, t, res.resp)
               /\ file_path' = Set(file_path, t, res.file_path)
               /\ Goto(t, "fallback_page")
          ELSE /\ Return(t, Err("static_files"))
               /\ UNCHANGED <<resp, file_path>>
    /\ UNCHANGED <<opts, active, remote_addr, remote_addr_str, log, inbound,
                   req, round, base_path, trace, args, faults, prev>>

\* Variant of StaticResolved: a rendered error page is returned at once,
\* without the post-transform chain.
StaticResolved_ErrorSkipsChain(t) ==
    /\ pc[t] = "static_await"
    /\ LET res == StaticHandle(base_path[t], req[t]) IN
          IF res.kind = "ok"
          THEN /\ resp' = Set(resp, t, res.resp)
               /\ file_path' = Set(file_path, t, res.file_path)
               /\ Goto(t, "fallback_page")
               /\ UNCHANGED <<trace, args>>
          ELSE /\ Invoke(t, <<"error_page">>)
               /\ Return(t, ErrorResponse(req[t].path, req[t].method, res.status,
                                          opts.page404, opts.page50x))
               /\ UNCHANGED <<resp, file_path>>
    /\ UNCHANGED <<opts, active, remote_addr, remote_addr_str, log, inbound, req, round, base_path, faults, prev>>

\* `.await { Ok(result) => (result.resp, Some(result.file_path)),
\*           Err(status) => (error_page::error_response(..)?, None) }`
StaticResolved(t) ==
    /\ pc[t] = "static_await"
    /\ LET res == StaticHandle(base_path[t], req[t]) IN
          IF res.kind = "ok"
          THEN /\ resp' = Set(resp, t, res.resp)
               /\ file_path' = Set(file_path, t, res.file_path)
               /\ Goto(t, "fallback_page")
               /\ UNCHANGED <<trace, args>>
          ELSE LET page == ErrorResponse(req[t].path, req[t].method, res.status,
                                         opts.page404, opts.page50x) IN
               /\ Invoke(t, <<"error_page">>)
               /\ file_path' = Set(file_path, t, NoPath)
               /\ IF page.kind = "err"
                  THEN /\ Return(t, page)
                       /\ UNCHANGED resp
                  ELSE /\ Goto(t, "fallback_page")
                       /\ resp' = Set(resp, t, page.resp)
    /\ UNCHANGED <<opts, active, remote_addr, remote_addr_str, log, inbound, req, round, base_path, faults, prev>>

FallbackPage(t) == PostTransform(t, "fallback_page", "cors_post")

CorsPost(t) == PostTransform(t, "cors_post", "compression_static")

CompressionStatic(t) == PostTransform(t, "compression_static", "compression")

Compression(t) == PostTransform(t, "compression", "control_headers")

ControlHeaders(t) == PostTransform(t, "control_headers", "security_headers")

SecurityHeaders(t) == PostTransform(t, "security_headers", "custom_headers")

CustomHeaders(t) == PostTransform(t, "custom_headers", "ok")

\* `Ok(resp)`
Finish(t) ==
    /\ pc[t] = "ok"
    /\ Return(t, Ok(resp[t]))
    /\ UNCHANGED <<opts, active, remote_addr, remote_addr_str, log, inbound,
                   req, round, base_path, resp, file_path, trace, args,
                   faults, prev>>

-----------------------------------------------------------------------------
(* Specification *)

Idle(o, running) ==
    /\ opts = o
    /\ active = running
    /\ pc = [t \in running |-> "idle"]
    /\ inbound = [t \in running |-> CHOOSE r \in Requests : TRUE]
    /\ req = inbound
    /\ round = [t \in running |-> 0]
    /\ base_path = [t \in running |-> o.root_dir]
    /\ resp = [t \in running |-> NoResponse]
    /\ file_path = [t \in running |-> NoPath]
    /\ result = [t \in running |-> Pending]
    /\ trace = [t \in running |-> <<>>]
    /\ faults = [t \in running |-> NoFaults]
    /\ prev = [t \in running |-> [trace |-> <<>>, result |-> Pending]]
    /\ remote_addr = [t \in running |-> "none"]
    /\ remote_addr_str = [t \in running |-> <<>>]
    /\ log = [t \in running |-> <<>>]
    /\ args = [t \in running |-> NoArgs]

\* One request task over any configuration that does not log remote
\* addresses.
Init == \E o \in Configs : ~o.log_remote_address /\ Idle(o, {"t1"})

\* One step of a request inside handle.
Handle ==
    \/ \E t \in active : Health(t)
    \/ \E t \in active : Log(t)
    \/ \E t \in active : MethodCheck(t)
    \/ \E t \in active : Metrics(t)
    \/ \E t \in active : Cors(t)
    \/ \E t \in active : BasicAuth(t)
    \/ \E t \in active : MaintenanceMode(t)
    \/ \E t \in active : Redirects(t)
    \/ \E t \in active : Rewrites(t)
    \/ \E t \in active : VirtualHosts(t)
    \/ \E t \in active : StaticFiles(t)
    \/ \E t \in active : StaticResolved(t)
    \/ \E t \in active : FallbackPage(t)
    \/ \E t \in active : CorsPost(t)
    \/ \E t \in active : CompressionStatic(t)
    \/ \E t \in active : Compression(t)
    \/ \E t \in active : ControlHeaders(t)
    \/ \E t \in active : SecurityHeaders(t)
    \/ \E t \in active : CustomHeaders(t)
    \/ \E t \in active : Finish(t)

Next ==
    \/ \E t \in active : Receive(t)
    \/ Handle

Spec == Init /\ [][Next]_vars

\* Every stage that is called returns, and a task that can run is run.
SpecLive == Spec /\ WF_vars(Next)

\* One request task under the default configuration with remote-address
\* logging and the health endpoint switched on or off.
InitAddr ==
    \E l \in BOOLEAN, h \in BOOLEAN :
        Idle([DefaultOpts EXCEPT !.log_remote_address = l, !.health = h], {"t1"})

NextAddr ==
    \/ \E t \in active : ReceiveForwarded(t)
    \/ Handle

SpecAddr == InitAddr /\ [][NextAddr]_vars

\* Every task handles a request, all over one shared configuration that has
\* advanced options (rewrites, virtual hosts).
InitConc ==
    \E c \in BOOLEAN :
        Idle([DefaultOpts EXCEPT !.advanced_opts = TRUE, !.compression = c],
             Tasks)

NextConc ==
    \/ \E t \in active : ReceiveConc(t)
    \/ \E t \in active : Cancel(t)
    \/ Handle

SpecConc == InitConc /\ [][NextConc]_vars

\* The same, with every request handed to handle a second time.
NextAgain ==
    \/ Next
    \/ \E t \in active : HandleAgain(t)

SpecAgain == Init /\ [][NextAgain]_vars

-----------------------------------------------------------------------------
(* Properties of the dispatch *)

IsPre(x) == x \in Range(PreStages)
IsPost(x) == x \in Range(PostStages)

\* The pre-filter stages and the post-transform stages a trace holds.
PrePart(tr) == SelectSeq(tr, IsPre)
PostPart(tr) == SelectSeq(tr, IsPost)

IsPrefix(s, q) == Len(s) <= Len(q) /\ \A i \in 1..Len(s) : s[i] = q[i]

Last(s) == s[Len(s)]

Count(tr, x) == Cardinality({i \in 1..Len(tr) : tr[i] = x})

Done(t) == pc[t] = "done"

Resolved(t) == "static_files" \in Range(trace[t])

\* What pre-filter stage `stage` answers to request r under configuration o.
PreAnswer(stage, o, r) ==
    CASE stage = "health" -> HealthPre(o, r)
      [] stage = "method" ->
            IF IsAllowed(r.method) THEN NoneV
            ELSE ErrorResponse(r.path, r.method, 405, o.page404, o.page50x)
      [] stage = "metrics" -> MetricsPre(o, r)
      [] stage = "cors" -> CorsPre(o, r)
      [] stage = "basic_auth" -> BasicAuthPre(o, r)
      [] stage = "maintenance_mode" -> MaintenancePre(o, r)
      [] stage = "redirects" -> RedirectsPre(o, r)
      [] stage = "rewrites" -> RewritesPre(o, r)
      [] OTHER -> NoneV

\* Every pre-filter stage before the n-th lets request r continue.
ContinuesUpTo(n, o, r) ==
    \A i \in 1..(n - 1) : PreAnswer(PreStages[i], o, r).kind = "none"

Index(stage) == CHOOSE i \in 1..Len(PreStages) : PreStages[i] = stage

\* (a) a terminal response of a pre-filter stage: no static resolution, no
\* post-transform stage.
OutcomeTerminal(t) ==
    /\ result[t].kind = "ok"
    /\ ~Resolved(t)
    /\ PostPart(trace[t]) = <<>>
    /\ PrePart(trace[t]) # <<>>
    /\ result[t] = PreAnswer(Last(PrePart(trace[t])), opts, req[t])

\* (b) a response derived from static resolution that went through all seven
\* post-transform stages in order.
OutcomeTransformed(t) ==
    /\ result[t].kind = "ok"
    /\ Resolved(t)
    /\ PostPart(trace[t]) = PostStages
    /\ result[t].resp = resp[t]

\* A fatal error of a failed post-transform stage: no response at all.
OutcomeFatal(t) ==
    /\ result[t].kind = "err"
    /\ result[t].resp = NoResponse
    /\ Resolved(t)
    /\ PostPart(trace[t]) # <<>>
    /\ IsPrefix(PostPart(trace[t]), PostStages)
    /\ result[t].error = Last(trace[t])

\* C1 as stated: every handled request ends in exactly one of the outcomes
\* (a) terminal pre-filter response without static resolution or
\* post-transforms, (b) static-resolution response after all seven
\* post-transform stages; there is no other outcome.
C1_TwoOutcomesOnly ==
    \A t \in active : Done(t) =>
        /\ OutcomeTerminal(t) \/ OutcomeTransformed(t)
        /\ ~(OutcomeTerminal(t) /\ OutcomeTransformed(t))

\* C1 amended: every handled request ends in exactly one of (a), (b) or a
\* fatal error raised by a failed post-transform stage, which carries no
\* response; so every response that reaches the caller is (a) or (b).
C1_ThreeOutcomes ==
    \A t \in active : Done(t) =>
        /\ OutcomeTerminal(t) \/ OutcomeTransformed(t) \/ OutcomeFatal(t)
        /\ ~(OutcomeTerminal(t) /\ OutcomeTransformed(t))
        /\ ~(OutcomeTerminal(t) /\ OutcomeFatal(t))
        /\ ~(OutcomeTransformed(t) /\ OutcomeFatal(t))
        /\ result[t].kind = "ok" => OutcomeTerminal(t) \/ OutcomeTransformed(t)

\* A request went through static resolution and the whole post-transform
\* chain, with a stage that changed the response.
C1_Witness ==
    \E t \in active :
        /\ Done(t)
        /\ OutcomeTransformed(t)
        /\ result[t].resp.headers["cache-control"] = "control_headers"

\* C2: the pre-filter stages run in the order health, log, method, metrics,
\* cors, basic auth, maintenance, redirects, rewrites, virtual hosts; a stage
\* runs only if every earlier one continued; the first terminal response ends
\* handling, with no later pre-filter, no static resolution and no
\* post-transform stage.
C2_PreFilterOrder ==
    \A t \in active :
        LET pre == PrePart(trace[t]) IN
        /\ IsPrefix(pre, PreStages)
        /\ ContinuesUpTo(Len(pre), opts, inbound[t])
        /\ (Resolved(t) \/ PostPart(trace[t]) # <<>>) => pre = PreStages
        /\ (pre # <<>> /\ PreAnswer(Last(pre), opts, inbound[t]).kind # "none") =>
              /\ Done(t)
              /\ result[t] = PreAnswer(Last(pre), opts, inbound[t])
              /\ ~Resolved(t)
              /\ PostPart(trace[t]) = <<>>

\* Basic auth rejected a request after five earlier stages had continued.
C2_Witness ==
    \E t \in active :
        /\ Done(t)
        /\ PrePart(trace[t]) = SubSeq(PreStages, 1, 6)
        /\ result[t].resp.status = 401

\* The response and file path static resolution hands to the post-transform
\* chain: the resolver's on success, the rendered error page on failure.
Entering(t) ==
    LET res == StaticHandle(base_path[t], req[t]) IN
    IF res.kind = "ok" THEN res.resp
    ELSE ErrorResponse(req[t].path, req[t].method, res.status,
                       opts.page404, opts.page50x).resp

EnteringPath(t) == StaticHandle(base_path[t], req[t]).file_path

\* The first n post-transform stages applied in order to response rs.
RECURSIVE ChainUpTo(_, _, _, _, _)
ChainUpTo(n, o, r, rs, fp) ==
    IF n = 0 THEN rs
    ELSE PostProcess(o, r, PostStages[n], ChainUpTo(n - 1, o, r, rs, fp), fp)

\* The last stage in chain order that sets header h, "unset" if none does.
LastWriter(o, fp, h) ==
    LET ws == {i \in 1..Len(PostStages) : h \in Writes(o, PostStages[i], fp)} IN
    IF ws = {} THEN "unset"
    ELSE PostStages[CHOOSE i \in ws : \A j \in ws : j <= i]

\* C3: once static resolution is reached, the successful response and the
\* rendered error response alike pass the post-transform stages in the order
\* fallback page, CORS, compression Vary, compression, cache control,
\* security headers, custom headers, each stage receiving the previous one's
\* response; a header two stages set carries the later stage's value.
C3_PostTransformOrder ==
    \A t \in active :
        LET post == PostPart(trace[t]) IN
        /\ IsPrefix(post, PostStages)
        /\ post # <<>> => Resolved(t)
        /\ (Resolved(t) /\ pc[t] # "static_await" /\ result[t].kind # "err") =>
              resp[t] = ChainUpTo(Len(post), opts, req[t], Entering(t),
                                  EnteringPath(t))
        /\ (Done(t) /\ Resolved(t) /\ result[t].kind = "ok") =>
              /\ post = PostStages
              /\ \A h \in Headers :
                    result[t].resp.headers[h] = LastWriter(opts, EnteringPath(t), h)

\* A rendered 404 went through the chain, and of the two stages that set
\* Vary the later one's value is in the response.
C3_Witness ==
    \E t \in active :
        /\ Done(t)
        /\ result[t].kind = "ok"
        /\ result[t].resp.status = 404
        /\ result[t].resp.origin = "error_page"
        /\ opts.compression_static
        /\ opts.compression
        /\ result[t].resp.headers["vary"] = "compression"

\* C4: a request whose method is not allowed is answered 405, rendered by
\* the error page renderer's client-error branch, and neither static
\* resolution nor a post-transform stage runs for it.
C4_MethodNotAllowed ==
    \A t \in active : ~IsAllowed(inbound[t].method) =>
        /\ ~Resolved(t)
        /\ PostPart(trace[t]) = <<>>
        /\ Done(t) =>
              /\ result[t].kind = "ok"
              /\ result[t].resp.status = 405
              /\ result[t].resp.origin = "error_page"
              /\ result[t].resp.page = opts.page404
              /\ Last(trace[t]) = "error_page"

\* A DELETE of the health endpoint, with the health feature on, got its 405.
C4_Witness ==
    \E t \in active :
        /\ Done(t)
        /\ inbound[t].method = "DELETE"
        /\ inbound[t].path = "/health"
        /\ opts.health
        /\ result[t].resp.status = 405

\* C5 as stated: with maintenance mode enabled every request, whatever its
\* method, path and headers, is answered with the configured maintenance
\* status.
C5_MaintenanceAnswersAll ==
    \A t \in active : (Done(t) /\ opts.maintenance_mode) =>
        /\ result[t].kind = "ok"
        /\ result[t].resp.status = opts.maintenance_mode_status

\* C5 amended: with maintenance mode enabled every request that none of the
\* earlier stages (health probe, method allow-list, metrics, CORS preflight,
\* basic auth) answers is answered with the configured maintenance status
\* and page.
C5_MaintenanceAnswersRest ==
    \A t \in active :
        (/\ Done(t)
         /\ opts.maintenance_mode
         /\ ContinuesUpTo(Index("maintenance_mode"), opts, inbound[t])) =>
            /\ result[t].kind = "ok"
            /\ result[t].resp.status = opts.maintenance_mode_status
            /\ result[t].resp.origin = "maintenance_mode"

\* Maintenance answered an authorised request with a non-default status.
C5_Witness ==
    \E t \in active :
        /\ Done(t)
        /\ opts.maintenance_mode
        /\ opts.maintenance_mode_status = 500
        /\ result[t].resp.status = 500
        /\ result[t].resp.origin = "maintenance_mode"

\* C6: a request that reaches the maintenance check while maintenance mode
\* is on gets the maintenance response with the configured status; redirects,
\* rewrites, virtual hosts, static resolution and the post-transform stages
\* never run for it, whether or not the path exists.
C6_MaintenancePreempts ==
    \A t \in active :
        (opts.maintenance_mode /\ "maintenance_mode" \in Range(trace[t])) =>
            /\ Done(t)
            /\ result[t] = Ok(Response(opts.maintenance_mode_status,
                                       "maintenance_mode", "none"))
            /\ Last(trace[t]) = "maintenance_mode"
            /\ Range(trace[t]) \cap {"redirects", "rewrites", "virtual_hosts",
                                     "static_files", "error_page"} = {}
            /\ PostPart(trace[t]) = <<>>

\* Maintenance answered a request for a file that exists.
C6_Witness ==
    \E t \in active :
        /\ Done(t)
        /\ opts.maintenance_mode
        /\ inbound[t].path = "/a.html"
        /\ Last(trace[t]) = "maintenance_mode"
        /\ result[t].resp.status = 503

\* C7 as stated: with basic auth enabled every request without an
\* Authorization header is answered 401 and never reaches static resolution.
C7_NoCredentialIs401 ==
    \A t \in active :
        (opts.basic_auth /\ inbound[t].authorization = "none") =>
            /\ ~Resolved(t)
            /\ Done(t) => result[t].kind = "ok" /\ result[t].resp.status = 401

\* C7 amended: with basic auth enabled a request without an Authorization
\* header never reaches static resolution, and it is answered 401 unless an
\* earlier stage (health probe, method allow-list, metrics, CORS preflight)
\* answered it.
C7_NoCredentialNeverResolved ==
    \A t \in active :
        (opts.basic_auth /\ inbound[t].authorization = "none") =>
            /\ ~Resolved(t)
            /\ PostPart(trace[t]) = <<>>
            /\ (Done(t) /\ ContinuesUpTo(Index("basic_auth"), opts, inbound[t])) =>
                  /\ result[t].kind = "ok"
                  /\ result[t].resp.status = 401
                  /\ result[t].resp.origin = "basic_auth"
            /\ Done(t) =>
                  result[t].resp.origin \in
                      {"health", "error_page", "metrics", "cors", "basic_auth"}

\* A GET of an existing file without credentials was answered 401.
C7_Witness ==
    \E t \in active :
        /\ Done(t)
        /\ opts.basic_auth
        /\ inbound[t].authorization = "none"
        /\ inbound[t].path = "/a.html"
        /\ result[t].resp.status = 401

\* The post-transform stages of this handling that failed.
Failed(t) == {s \in Range(trace[t]) : IsPost(s) /\ faults[t][s] = "fail"}

\* C8: handle returns a fatal error only when a post-transform stage failed;
\* a rejected method and a failed static resolution are rendered into a
\* well-formed response.
C8_FatalOnlyFromPostTransform ==
    \A t \in active : Done(t) =>
        /\ result[t].kind \in {"ok", "err"}
        /\ result[t].kind = "err" =>
              /\ Failed(t) = {result[t].error}
              /\ IsPost(result[t].error)
        /\ Failed(t) = {} =>
              /\ result[t].kind = "ok"
              /\ result[t].resp.status \in 100..599
        /\ (Failed(t) = {} /\ Resolved(t)
              /\ StaticHandle(base_path[t], req[t]).kind = "err"
              /\ ~(opts.page_fallback /\ req[t].method = "GET")) =>
              /\ result[t].resp.status = StaticHandle(base_path[t], req[t]).status
              /\ result[t].resp.origin = "error_page"

\* A failed resolution was rendered and returned as a 404 response.
C8_Witness ==
    \E t \in active :
        /\ Done(t)
        /\ Resolved(t)
        /\ "error_page" \in Range(trace[t])
        /\ result[t].kind = "ok"
        /\ result[t].resp.status = 404

\* C9: when a post-transform stage fails, handle returns a fatal error and
\* no response; the stage is not run again, no later stage runs, and the
\* partly transformed response is not returned.
C9_FailedStageIsFatal ==
    \A t \in active : \A s \in Failed(t) :
        /\ Done(t)
        /\ result[t] = Err(s)
        /\ result[t].resp = NoResponse
        /\ resp[t] = NoResponse
        /\ Last(trace[t]) = s
        /\ Count(trace[t], s) = 1
        /\ IsPrefix(PostPart(trace[t]), PostStages)

\* The compression stage failed after earlier stages had succeeded.
C9_Witness ==
    \E t \in active :
        /\ Done(t)
        /\ result[t] = Err("compression")
        /\ PostPart(trace[t]) = SubSeq(PostStages, 1, 4)

\* C10: handling the same request again under the same configuration, the
\* stages answering as before, runs the same stages in the same order and
\* returns the same response or the same fatal error.
C10_Deterministic ==
    \A t \in active : round[t] = 2 =>
        /\ IsPrefix(trace[t], prev[t].trace)
        /\ Done(t) =>
              /\ trace[t] = prev[t].trace
              /\ result[t] = prev[t].result

\* A request that went through every stage was handled a second time.
C10_Witness ==
    \E t \in active :
        /\ round[t] = 2
        /\ Done(t)
        /\ PostPart(trace[t]) = PostStages
        /\ base_path[t] = VirtualHostRoot

\* Static resolution has returned to handle.
AfterResolution(t) == Resolved(t) /\ pc[t] # "static_await"

\* C11: the file path handed to the custom-headers stage is present exactly
\* when static resolution succeeded; after a failed resolution it is absent
\* through the whole post-transform chain, also when the fallback page
\* replaced the rendered error; no other post-transform stage is given it.
C11_FilePathIffResolved ==
    \A t \in active :
        LET res == StaticHandle(base_path[t], req[t]) IN
        /\ ~AfterResolution(t) => file_path[t] = NoPath
        /\ AfterResolution(t) =>
              /\ file_path[t].some <=> res.kind = "ok"
              /\ file_path[t] = res.file_path
        /\ \A i \in 1..Len(args[t].paths) :
              /\ args[t].paths[i].stage = "custom_headers"
              /\ args[t].paths[i].value = file_path[t]
        /\ Len(args[t].paths) = Count(trace[t], "custom_headers")

\* The fallback page replaced a rendered 404 and the custom-headers stage was
\* given no file path.
C11_Witness ==
    \E t \in active :
        /\ Done(t)
        /\ result[t].kind = "ok"
        /\ result[t].resp.origin = "fallback_page"
        /\ Len(args[t].paths) = 1
        /\ args[t].paths[1].value = NoPath

\* The base path virtual-host resolution selects for task t's request.
EffectiveBase(t) ==
    IF opts.advanced_opts /\ GetRealRoot(req[t]).some
    THEN GetRealRoot(req[t]).base
    ELSE opts.root_dir

\* C12: the static resolver is given the root directory unless advanced
\* options exist and the Host header matches a virtual host, then that
\* host's root; the override happens once, after every pre-filter continued
\* and before static resolution, never for a short-circuited request.
C12_EffectiveBasePath ==
    \A t \in active :
        /\ base_path[t] =
              IF "virtual_hosts" \in Range(trace[t])
              THEN EffectiveBase(t) ELSE opts.root_dir
        /\ Count(trace[t], "virtual_hosts") <= 1
        /\ "virtual_hosts" \in Range(trace[t]) =>
              ContinuesUpTo(Len(PreStages), opts, inbound[t])
        /\ \A i \in 1..Len(args[t].bases) : args[t].bases[i].value = EffectiveBase(t)
        /\ Resolved(t) =>
              /\ Len(args[t].bases) = 1
              /\ "virtual_hosts" \in Range(trace[t])
        /\ (Done(t) /\ ~Resolved(t)) =>
              /\ base_path[t] = opts.root_dir
              /\ args[t].bases = <<>>

\* A file that exists only below the virtual host's root was served.
C12_Witness ==
    \E t \in active :
        /\ Done(t)
        /\ inbound[t].path = "/b.html"
        /\ inbound[t].host = "vhost.example.org"
        /\ args[t].bases = <<[stage |-> "static_files", value |-> VirtualHostRoot]>>
        /\ result[t].resp.status = 200

\* C13: a request the health stage answers leaves no log record; every other
\* request leaves exactly one "incoming request" record, written before the
\* method check and before any other stage, so also when it is then rejected
\* with 405, 401 or the maintenance response.
C13_OneLogRecord ==
    \A t \in active :
        /\ Len(trace[t]) <= 1 => log[t] = <<>>
        /\ Len(trace[t]) >= 2 =>
              /\ trace[t][2] = "log"
              /\ log[t] = <<[method |-> inbound[t].method,
                             uri |-> inbound[t].path,
                             annotation |-> remote_addr_str[t]]>>
        /\ (Done(t) /\ HealthPre(opts, inbound[t]).kind # "none") =>
              /\ result[t].resp.origin = "health"
              /\ log[t] = <<>>
        /\ (Done(t) /\ HealthPre(opts, inbound[t]).kind = "none") =>
              Len(log[t]) = 1

\* A request rejected with 401 left its one log record.
C13_Witness ==
    \E t \in active :
        /\ Done(t)
        /\ result[t].resp.status = 401
        /\ Len(log[t]) = 1
        /\ log[t][1].uri = "/health"

\* The position of the rewrite stage in a trace, 0 if it has not run.
RewriteAt(tr) ==
    IF "rewrites" \in Range(tr)
    THEN CHOOSE i \in 1..Len(tr) : tr[i] = "rewrites"
    ELSE 0

Handling(t) == t \in active /\ pc[t] \notin {"idle", "done"}

\* Within one handling no stage was called twice, the renderer included, and
\* the outcome is there exactly when handle has returned.
AtMostOnce ==
    \A t \in active :
        /\ \A s \in Range(trace[t]) : Count(trace[t], s) = 1
        /\ Count(trace[t], "error_page") <= 1
        /\ Done(t) <=> result[t] # Pending
        /\ result[t].kind = "ok" =>
              result[t].resp # NoResponse /\ result[t].error = "none"
        /\ result[t].kind = "err" =>
              result[t].resp = NoResponse /\ result[t].error \in Range(PostStages)

\* C16: every stage called returning, each handling of a request ends with
\* exactly one outcome, a response or a fatal error; within it each
\* pre-filter, the static resolver and each post-transform stage is called at
\* most once and the error page renderer at most once, for the 405 or for a
\* failed resolution, never both.
C16_TerminatesOnce ==
    /\ []AtMostOnce
    /\ \A t \in Tasks : Handling(t) ~> (t \in active /\ Done(t))

\* A handling ended in a fatal error after the renderer ran once for a
\* failed resolution.
C16_Witness ==
    \E t \in active :
        /\ Done(t)
        /\ result[t].kind = "err"
        /\ Count(trace[t], "error_page") = 1
        /\ Count(trace[t], "static_files") = 1

\* The stages behind the basic-auth check.
BehindAuth ==
    {"maintenance_mode", "redirects", "rewrites", "virtual_hosts",
     "static_files", "error_page"} \cup Range(PostStages)

\* The basic-auth stage was called for task t's request and rejected it.
Rejected(t) ==
    /\ "basic_auth" \in Range(trace[t])
    /\ BasicAuthPre(opts, inbound[t]).kind # "none"

\* C17: a request the basic-auth stage rejected is answered with that stage's
\* 401 and none of the maintenance, redirect, rewrite, virtual-host,
\* static-resolution and post-transform stages runs for it; a request answered
\* before its credentials were checked was answered by the health probe, the
\* method allow-list (405), metrics or the CORS preflight.
C17_RejectedRunsNothingMore ==
    \A t \in active :
        /\ Rejected(t) =>
              /\ Done(t)
              /\ Last(trace[t]) = "basic_auth"
              /\ result[t] = BasicAuthPre(opts, inbound[t])
              /\ result[t].resp.status = 401
              /\ Range(trace[t]) \cap BehindAuth \subseteq
                    {s \in {"error_page"} : ~IsAllowed(inbound[t].method)}
        /\ BasicAuthPre(opts, inbound[t]).kind # "none" =>
              /\ Range(trace[t]) \cap (BehindAuth \ {"error_page"}) = {}
              /\ Done(t) => result[t].kind = "ok"
        /\ (Done(t) /\ "basic_auth" \notin Range(trace[t])) =>
              /\ result[t].kind = "ok"
              /\ <<Last(PrePart(trace[t])), result[t].resp.origin>> \in
                    {<<"health", "health">>, <<"method", "error_page">>,
                     <<"metrics", "metrics">>, <<"cors", "cors">>}

\* In maintenance mode a request without a credential got the 401, not the
\* maintenance response.
C17_Witness ==
    \E t \in active :
        /\ Done(t)
        /\ Rejected(t)
        /\ inbound[t].path = "/old"
        /\ opts.maintenance_mode
        /\ result[t].resp.status = 401

\* The annotation a names a real remote IP: its last two pieces are the
\* marker and an address.
HasRealIp(a) ==
    /\ Len(a) >= 3
    /\ a[Len(a) - 1] = " real_remote_ip="
    /\ a[Len(a)] \in {"203.0.113.7", "2001:db8::1"}
    /\ \A i \in 1..(Len(a) - 2) : a[i] # " real_remote_ip="

\* The first comma-separated entry of header h, trimmed, is an IP address.
FirstEntryIsIp(h) ==
    h.present /\ ParseIpAddr(Trim(h.entries[1])) # ""

\* Every byte of header h is visible ASCII.
VisibleAscii(h) ==
    \A i \in 1..Len(h.entries) : h.entries[i] # "caf<E9>"

\* The annotation is empty without remote-address logging; with it, it starts
\* with the marker and the socket address, where there is one.
AnnotationHead(t) ==
    LET a == remote_addr_str[t] IN
    IF ~opts.log_remote_address THEN a = <<>>
    ELSE /\ a # <<>>
         /\ a[1] = " remote_addr="
         /\ IF remote_addr[t] = "none"
            THEN Len(a) = 1 \/ HasRealIp(a)
            ELSE /\ Len(a) >= 2
                 /\ a[2] = remote_addr[t]
                 /\ Len(a) = 2 \/ HasRealIp(a)

\* The health stage and the log record were given the annotation as built.
AnnotationPassed(t) ==
    /\ \A i \in 1..Len(args[t].annotations) :
          args[t].annotations[i].value = remote_addr_str[t]
    /\ Len(trace[t]) >= 1 =>
          /\ args[t].annotations # <<>>
          /\ args[t].annotations[1].stage = "health"
    /\ \A i \in 1..Len(log[t]) : log[t][i].annotation = remote_addr_str[t]
    /\ "log" \in Range(trace[t]) =>
          /\ Len(log[t]) = 1
          /\ Len(args[t].annotations) = 2
          /\ args[t].annotations[2].stage = "log"

\* C18 as stated: the annotation names a real remote IP exactly when the
\* request has an X-Forwarded-For header whose first comma-separated entry,
\* trimmed, parses as an IP address.
C18_RealIpIffFirstEntryParses ==
    \A t \in active : (pc[t] # "idle" /\ opts.log_remote_address) =>
        (HasRealIp(remote_addr_str[t])
            <=> FirstEntryIsIp(inbound[t].x_forwarded_for))

\* C18 amended: the annotation is empty without remote-address logging; with
\* it, it starts with ' remote_addr=' and the socket address (nothing when
\* there is none) and names a real remote IP exactly when the request has an
\* X-Forwarded-For header whose value is all visible ASCII and whose first
\* comma-separated entry, trimmed, parses as an IP address; the health stage
\* and the log record get this same annotation.
C18_RealIpIffReadableAndParses ==
    \A t \in active : pc[t] # "idle" =>
        /\ AnnotationHead(t)
        /\ HasRealIp(remote_addr_str[t]) <=>
              /\ opts.log_remote_address
              /\ VisibleAscii(inbound[t].x_forwarded_for)
              /\ FirstEntryIsIp(inbound[t].x_forwarded_for)
        /\ HasRealIp(remote_addr_str[t]) =>
              Last(remote_addr_str[t]) =
                  ParseIpAddr(Trim(inbound[t].x_forwarded_for.entries[1]))
        /\ AnnotationPassed(t)

\* The log record of a request names the peer's socket address and the
\* client address taken from the padded first entry of the header.
C18_Witness ==
    \E t \in active :
        /\ Done(t)
        /\ inbound[t].x_forwarded_for = Header(<<" 203.0.113.7 ", "unknown">>)
        /\ Len(log[t]) = 1
        /\ log[t][1].annotation =
              <<" remote_addr=", "192.0.2.1:4711", " real_remote_ip=", "203.0.113.7">>

\* The least element of a non-empty set of numbers.
Min(S) == CHOOSE i \in S : \A j \in S : i <= j

\* The outcome of request r under configuration o when it is handled alone,
\* the post-transform stages answering as f says.
Alone(o, r, f) ==
    LET answering == {i \in 1..Len(PreStages) :
                         PreAnswer(PreStages[i], o, r).kind # "none"}
        rr == RewrittenRequest(o, r)
        base == IF o.advanced_opts /\ GetRealRoot(rr).some
                THEN GetRealRoot(rr).base ELSE o.root_dir
        res == StaticHandle(base, rr)
        entering == IF res.kind = "ok" THEN res.resp
                    ELSE ErrorResponse(rr.path, rr.method, res.status,
                                       o.page404, o.page50x).resp
        failing == {i \in 1..Len(PostStages) : f[PostStages[i]] = "fail"}
    IN  IF answering # {}
        THEN PreAnswer(PreStages[Min(answering)], o, r)
        ELSE IF failing # {}
        THEN Err(PostStages[Min(failing)])
        ELSE Ok(ChainUpTo(Len(PostStages), o, rr, entering, res.file_path))

\* The URI and the base path of each request in flight follow from that
\* request alone, an abandoned request has no outcome, and a handled one has
\* the outcome it has when handled alone.
NoLeak ==
    \A t \in active :
        /\ req[t] = IF "rewrites" \in Range(trace[t])
                    THEN RewrittenRequest(opts, inbound[t]) ELSE inbound[t]
        /\ base_path[t] =
              IF "virtual_hosts" \in Range(trace[t])
              THEN (IF GetRealRoot(inbound[t]).some
                    THEN GetRealRoot(inbound[t]).base ELSE opts.root_dir)
              ELSE opts.root_dir
        /\ pc[t] = "cancelled" => result[t] = Pending
        /\ Done(t) => result[t] = Alone(opts, inbound[t], faults[t])

\* C15: in every interleaving of requests handled concurrently, requests
\* abandoned at the static-resolution suspension point included, the shared
\* configuration is never changed, and a virtual-host override or a URI
\* rewrite of one request changes neither base path, URI nor outcome of
\* another: each request's outcome is the one it has when handled alone.
C15_Isolation ==
    /\ []NoLeak
    /\ [][opts' = opts]_vars

\* One request was abandoned after its URI was rewritten and its base path
\* overridden; another request for the same path on the default host got
\* the 404 it gets when handled alone.
C15_Witness ==
    \E t, u \in active :
        /\ pc[t] = "cancelled"
        /\ inbound[t].path = "/rw"
        /\ req[t].path = "/b.html"
        /\ base_path[t] = VirtualHostRoot
        /\ Done(u)
        /\ inbound[u].path = "/rw"
        /\ inbound[u].host = "example.org"
        /\ base_path[u] = opts.root_dir
        /\ result[u].kind = "ok"
        /\ result[u].resp.status = 404

====
